---------------------------- MODULE Spec2Model ----------------------------
(***************************************************************************)
(* A model of ecoff_fitter/wts.py: the two wild-type classifiers           *)
(* (nonsilent_WT, erj2022_WT), the drug -> gene mapper (inf_vars), the     *)
(* antibiogram generator (parallel_antibiogram / process_antibiogram) and  *)
(* the joblib-backed prediction cache (memory, cached_predict).            *)
(*                                                                         *)
(* Strings are sequences of one-character strings, so that str.split is    *)
(* modelled by what it does.  A missing value (NaN) is the sentinel NaN.   *)
(***************************************************************************)
EXTENDS Integers, Sequences, FiniteSets, TLC

VARIABLES
    \* ---- the inferred-antibiogram run (erj2022_WT.identify, worker pool)
    platform,      \* "fork" | "spawn": the context chosen at wts.py:36
    cores,         \* the cores argument of parallel_antibiogram
    cat,           \* the catalogue CSV rows read by inf_vars
    piezo,         \* what catalogue.predict returns, per variant notation it accepts
    loadable,      \* piezo.ResistanceCatalogue(catalogue_path) succeeds
    mutations,     \* the input mutation table (rows UNIQUEID, GENE, MUTATION)
    pc,            \* position of the main process, or the exception that ended it
    inf_muts,      \* inf_vars' filtered mutation table
    drug_genes,    \* inf_vars' drug -> genes dict, as a sequence of items
    taskqueue,     \* chunks of tasks not yet taken by a worker
    wk,            \* the pool's worker processes
    results,       \* task results received by the main process, in arrival order
    antibiograms,  \* the dict built at wts.py:43
    gWT_samples,   \* the dict returned by erj2022_WT.identify
    raised,        \* exceptions of failed chunks sent to the main process, in arrival order
    store,         \* the on-disk joblib cache: key -> stored entry
    \* ---- history of the run (observations only, never read by the program)
    nclears,       \* how many times memory.clear ran
    busyclear,     \* a clear ran after some worker had started a lookup
    computes,      \* per worker: a bag of keys, the executions of cached_predict's body
                   \* that returned a value
    hits,          \* per worker: the keys a lookup of it answered from the store
    written,       \* the (key, call) pairs stored during this run
    returned,      \* the (key, call) pairs returned by cached_predict in this run
    stalehit,      \* a lookup returned an entry stored before this run
    \* ---- nonsilent_WT.identify
    df,            \* the mutation table given to nonsilent_WT.identify
    ns_out,        \* its outcome
    \* ---- pure functions applied to drawn inputs
    fn_in,         \* the drawn input
    fn_out         \* the function's result

poolVars == <<platform, cores, cat, piezo, loadable, mutations, pc, inf_muts, drug_genes,
              taskqueue, wk, results, raised, antibiograms, gWT_samples, store>>
histVars == <<nclears, busyclear, computes, hits, written, returned, stalehit>>
nsVars == <<df, ns_out>>
fnVars == <<fn_in, fn_out>>
vars == <<poolVars, histVars, nsVars, fnVars>>

(***************************************************************************)
(* Bounds of the model.                                                    *)
(***************************************************************************)
MaxSamples == 11     \* samples in the input mutation table of a pool run
MaxCores == 2        \* largest value of the cores argument
MaxRows == 2         \* rows of the table given to nonsilent_WT.identify
MaxCatRows == 3      \* rows of the catalogue given to inf_vars alone
MaxPreds == 4        \* per-mutation calls aggregated for one drug

(***************************************************************************)
(* Strings.                                                                *)
(***************************************************************************)
NaN == <<"NaN">>
Sep == "@"

Max(S) == CHOOSE x \in S : \A y \in S : y <= x
Min(S) == CHOOSE x \in S : \A y \in S : x <= y
Range(s) == {s[i] : i \in DOMAIN s}

SepAt(s) == {i \in DOMAIN s : s[i] = Sep}

\* s.split("@")[-1]: the text after the last separator, all of s without one.
SplitLast(s) ==
    IF SepAt(s) = {} THEN s ELSE SubSeq(s, Max(SepAt(s)) + 1, Len(s))

\* s.split("@", n=1)[0]: the text before the first separator, all of s without one.
SplitFirst(s) ==
    IF SepAt(s) = {} THEN s ELSE SubSeq(s, 1, Min(SepAt(s)) - 1)

\* pandas' .unique(): the distinct values in order of first appearance.
RECURSIVE Unique(_)
Unique(s) ==
    IF s = <<>> THEN <<>>
    ELSE LET front == SubSeq(s, 1, Len(s) - 1)
             u == Unique(front)
         IN IF s[Len(s)] \in Range(u) THEN u ELSE Append(u, s[Len(s)])

(***************************************************************************)
(* erj2022_WT: panel, inf_vars, verdict.                                   *)
(***************************************************************************)
drugs == <<"RIF", "INH", "EMB", "PZA", "AMI", "KAN", "LEV", "MXF", "ETH">>
FirstLineStop == 4
SecondLineStop == 9

\* Python's s[a:b] for 0 <= a <= b.
Slice(s, a, b) == SubSeq(s, a + 1, IF b < Len(s) THEN b ELSE Len(s))

gWTMutant(res) ==
    /\ \A i \in DOMAIN Slice(res, 0, FirstLineStop) :
           Slice(res, 0, FirstLineStop)[i] = "S"
    /\ \A i \in DOMAIN Slice(res, FirstLineStop + 1, SecondLineStop) :
           Slice(res, FirstLineStop + 1, SecondLineStop)[i] \in {"S", "U"}

\* the value of the dict comprehension at wts.py:120-126 for one antibiogram
gWT(res) ==
    /\ \A i \in DOMAIN Slice(res, 0, FirstLineStop) :
           Slice(res, 0, FirstLineStop)[i] = "S"
    /\ \A i \in DOMAIN Slice(res, FirstLineStop, SecondLineStop) :
           Slice(res, FirstLineStop, SecondLineStop)[i] \in {"S", "U"}

\* the dict comprehension at wts.py:120-126
VerdictsOf(abs) == [u \in DOMAIN abs |-> gWT(abs[u])]

\* cat["GENE"] = cat["MUTATION"].str.split("@", n=1).str[0]
CatGene(row) == SplitFirst(row.MUTATION)

\* the GENE column of a selection of catalogue rows
GeneColumn(rows) == [i \in DOMAIN rows |-> CatGene(rows[i])]

R_genesMutant(c) == Unique(GeneColumn(c))

R_genes(c) ==
    Unique(GeneColumn(SelectSeq(c, LAMBDA r : r.PREDICTION = "R")))

cat_R(c) ==
    LET genes == Range(R_genes(c))
    IN SelectSeq(c, LAMBDA r : CatGene(r) \in genes)

\* cat_R.loc[cat_R["DRUG"].eq(drug), "GENE"].unique()
DrugGenesOf(catR, drug) ==
    Unique(GeneColumn(SelectSeq(catR, LAMBDA r : r.DRUG = drug)))

DrugGenesDictMutant(c, panel) ==
    LET catR == cat_R(c)
    IN [i \in DOMAIN panel |->
          <<panel[Len(panel) + 1 - i], DrugGenesOf(catR, panel[Len(panel) + 1 - i])>>]

\* inf_vars' dict drug -> genes, kept as its items in insertion order
DrugGenesDict(c, panel) ==
    LET catR == cat_R(c)
    IN [i \in DOMAIN panel |-> <<panel[i], DrugGenesOf(catR, panel[i])>>]

\* inf_vars' filtered mutation table
FilterMutations(muts, c) ==
    LET genes == Range(R_genes(c))
    IN SelectSeq(muts, LAMBDA r : r.GENE \in genes)

(***************************************************************************)
(* The prediction cache and the catalogue gateway.                         *)
(***************************************************************************)
CatPath == "catalogue.csv"

Scalar(c) == [isdict |-> FALSE, value |-> c, items |-> <<>>]
Dict(f) == [isdict |-> TRUE, value |-> "", items |-> f]

\* the body of cached_predict, given what catalogue.predict returned
ResolveMutant(result, drug) ==
    IF result.isdict THEN "S" ELSE result.value

Resolve(result, drug) ==
    IF result.isdict
    THEN (IF drug \in DOMAIN result.items THEN result.items[drug] ELSE "S")
    ELSE result.value

Key(mutation, drug, path) == <<mutation, drug, path>>

\* get_catalogue would have to load: the path is not in _catalogue_cache
MustLoad(r, path) == path \notin DOMAIN r.cache

GetCatalogueMutant(r, path) ==
    [r EXCEPT !.loads = @ + 1,
              !.cache = (path :> r.loads + 1) @@ @,
              !.handles = @ \cup {r.loads + 1}]

\* get_catalogue(catalogue_path) in the process of record r, the load
\* succeeding; a handle is named by the ordinal of the load that made it
GetCatalogue(r, path) ==
    IF MustLoad(r, path)
    THEN [r EXCEPT !.loads = @ + 1,
                   !.cache = (path :> r.loads + 1) @@ @,
                   !.handles = @ \cup {r.loads + 1}]
    ELSE [r EXCEPT !.handles = @ \cup {r.cache[path]}]

\* the number of copies of k in bag b
Count(b, k) == IF k \in DOMAIN b THEN b[k] ELSE 0

(***************************************************************************)
(* process_antibiogram, as run by a pool worker.  A worker is a record     *)
(*   pc       "unborn" | "idle" | "lookup" | "compute" | "terminated"      *)
(*   imported the worker process has executed the module's top level       *)
(*   cache    the process's _catalogue_cache: path -> handle               *)
(*   loads    catalogue loads by get_catalogue in this process             *)
(*   handles  the handles get_catalogue has returned in this process       *)
(*   chunk    the tasks of the chunk in hand, ti the task being processed  *)
(*   di       the item of drug_genes being processed                       *)
(*   mi       the row of muts being mapped, preds the calls mapped so far  *)
(*   res      the task's results list, out the chunk's finished tasks      *)
(***************************************************************************)
Workers == 1 .. MaxCores

Idle(r) == [r EXCEPT !.pc = "idle", !.chunk = <<>>, !.ti = 1, !.di = 1,
                     !.mi = 1, !.preds = <<>>, !.res = <<>>, !.out = <<>>]

\* muts = iso_muts[iso_muts.GENE.isin(genes)]
MutsFor(iso_muts, genes) == SelectSeq(iso_muts, LAMBDA r : r.GENE \in Range(genes))

InSeq(x, s) == \E i \in DOMAIN s : s[i] = x

AggregateMutant(preds) ==
    IF InSeq("U", preds) THEN "U" ELSE IF InSeq("R", preds) THEN "R" ELSE "S"

\* wts.py:66-70
Aggregate(preds) ==
    IF InSeq("R", preds) THEN "R" ELSE IF InSeq("U", preds) THEN "U" ELSE "S"

\* process_antibiogram's local steps within a task, up to its next call of
\* cached_predict (pc "lookup") or to its return statement (pc "return").
RECURSIVE RunTask(_, _)
RunTask(r, dg) ==
    IF r.di > Len(dg) THEN [r EXCEPT !.pc = "return"]
    ELSE LET muts == MutsFor(r.chunk[r.ti].iso_muts, dg[r.di][2])
         IN IF muts = <<>>
            THEN RunTask([r EXCEPT !.res = Append(r.res, "S"), !.di = r.di + 1], dg)
            ELSE IF r.mi > Len(muts)
            THEN RunTask([r EXCEPT !.res = Append(r.res, Aggregate(r.preds)),
                                    !.di = r.di + 1, !.mi = 1, !.preds = <<>>], dg)
            ELSE IF muts[r.mi].MUTATION = NaN
            THEN RunTask([r EXCEPT !.preds = Append(r.preds, "S"),
                                    !.mi = r.mi + 1], dg)
            ELSE [r EXCEPT !.pc = "lookup"]

\* The worker's local steps up to its next call of cached_predict, or to the
\* end of its chunk (ti past the last task): a task that returns adds
\* (uid, results) to the chunk's output (wts.py:74) and the next one starts.
RECURSIVE RunLocal(_, _)
RunLocal(r, dg) ==
    IF r.ti > Len(r.chunk) THEN r
    ELSE LET t == RunTask(r, dg)
         IN IF t.pc = "lookup" THEN t
            ELSE RunLocal([t EXCEPT !.out = Append(t.out, <<t.chunk[t.ti].uid, t.res>>),
                                    !.ti = t.ti + 1, !.di = 1, !.res = <<>>], dg)

\* the arguments of the call of cached_predict the worker is at
CallKey(r, dg) ==
    Key(MutsFor(r.chunk[r.ti].iso_muts, dg[r.di][2])[r.mi].MUTATION, dg[r.di][1], CatPath)

\* cached_predict returned call c to worker record r
Returned(r, c, dg) ==
    RunLocal([r EXCEPT !.preds = Append(r.preds, c), !.mi = r.mi + 1], dg)

(***************************************************************************)
(* parallel_antibiogram: tasks, chunks, the result dict.                   *)
(***************************************************************************)
ChunkSize == 10

UidColumn(m) == [i \in DOMAIN m |-> m[i].UNIQUEID]

\* wts.py:26-34: one task per distinct UNIQUEID, in order of first appearance
Tasks(m) ==
    LET uids == Unique(UidColumn(m))
    IN [j \in DOMAIN uids |->
          [uid |-> uids[j],
           iso_muts |-> SelectSeq(m, LAMBDA r : r.UNIQUEID = uids[j])]]

\* Pool._get_tasks: successive slices of at most size tasks
RECURSIVE Chunks(_, _)
Chunks(tasks, size) ==
    IF tasks = <<>> THEN <<>>
    ELSE IF Len(tasks) <= size THEN <<tasks>>
    ELSE <<SubSeq(tasks, 1, size)>> \o Chunks(SubSeq(tasks, size + 1, Len(tasks)), size)

\* {uid: calls for uid, calls in results}: a later item replaces an earlier one
DictOf(items) ==
    [u \in {items[i][1] : i \in DOMAIN items} |->
        items[Max({i \in DOMAIN items : items[i][1] = u})][2]]

PoolSize(n, tasks) == IF n < Len(tasks) THEN n ELSE Len(tasks)

(***************************************************************************)
(* The inputs of a pool run.                                               *)
(***************************************************************************)
gene_a == <<"a">>
gene_b == <<"b">>
empty == <<>>
a_bad == <<"a", "@">>
ax == <<"a", "@", "x">>
ay == <<"a", "@", "y">>
bx == <<"b", "@", "x">>
by == <<"b", "@", "y">>

CatRow(m, d, p) == [MUTATION |-> m, DRUG |-> d, PREDICTION |-> p]

\* A catalogue: the rows of its CSV file and what its predict returns.
PoolCatalogues ==
    { [rows |-> <<CatRow(ax, "RIF", "R"), CatRow(ay, "RIF", "U"), CatRow(by, "RIF", "S")>>,
       predict |-> (ax :> Dict("RIF" :> "R")) @@
                   (ay :> Dict("RIF" :> "U")) @@
                   (by :> Scalar("S"))],
      [rows |-> <<CatRow(by, "AMI", "U"), CatRow(bx, "AMI", "R"), CatRow(ax, "RIF", "U")>>,
       predict |-> (ax :> Dict("RIF" :> "U")) @@
                   (ay :> Scalar("S")) @@
                   (by :> Dict("AMI" :> "U")) @@
                   (empty :> Scalar("S"))] }

\* The rows (GENE, MUTATION) of one sample.
Profiles ==
    { <<<<gene_a, ax>>>>,
      <<<<gene_b, by>>>>,
      <<<<gene_a, NaN>>>>,
      <<<<gene_a, ay>>, <<gene_a, ax>>>> }

\* The profiles shared by the samples before the last one.
BulkProfiles ==
    { <<<<gene_a, ax>>>>,
      <<<<gene_b, by>>>>,
      <<<<gene_a, NaN>>>> }

\* Samples with an empty variant notation, or with one no catalogue accepts.
OddProfiles ==
    { <<<<gene_a, empty>>, <<gene_b, empty>>>>,
      <<<<gene_a, a_bad>>>> }

SampleRows(uid, prof) ==
    [i \in DOMAIN prof |-> [UNIQUEID |-> uid, GENE |-> prof[i][1], MUTATION |-> prof[i][2]]]

\* The table of samples 1..n: profile p for all but the last, q for the last.
RECURSIVE Table(_, _, _)
Table(n, p, q) ==
    IF n = 0 THEN <<>>
    ELSE IF n = 1 THEN SampleRows(1, q)
    ELSE LET t == Table(n - 1, p, p) IN t \o SampleRows(n, q)

KeySet == {Key(m, drugs[i], CatPath) : m \in {ax, ay, by, empty, a_bad}, i \in DOMAIN drugs}

Unborn == [pc |-> "unborn", imported |-> FALSE, cache |-> <<>>, loads |-> 0,
           handles |-> {}, chunk |-> <<>>,
           ti |-> 1, di |-> 1, mi |-> 1, preds |-> <<>>, res |-> <<>>, out |-> <<>>]

StaleEntry == [call |-> "R", run |-> "previous"]

(***************************************************************************)
(* The inferred-antibiogram run: erj2022_WT.identify in the main process   *)
(* and process_antibiogram in the pool's workers.                          *)
(***************************************************************************)
NoRun ==
    /\ platform = "fork" /\ cores = 1 /\ cat = <<>> /\ piezo = <<>>
    /\ loadable = TRUE /\ raised = <<>>
    /\ mutations = <<>> /\ pc = "off" /\ inf_muts = <<>> /\ drug_genes = <<>>
    /\ taskqueue = <<>> /\ wk = [w \in Workers |-> Unborn] /\ results = <<>>
    /\ antibiograms = <<>> /\ gWT_samples = <<>> /\ store = <<>>
    /\ nclears = 0 /\ busyclear = FALSE /\ stalehit = FALSE
    /\ computes = <<>> /\ hits = <<>> /\ written = {} /\ returned = {}

NoNonsilent == df = <<>> /\ ns_out = [state |-> "off", mask |-> <<>>]
NoFn == fn_in = <<>> /\ fn_out = <<>>

Init ==
    /\ platform \in {"fork", "spawn"}
    /\ cores \in 1 .. MaxCores
    /\ \E c \in PoolCatalogues : cat = c.rows /\ piezo = c.predict
    /\ loadable \in BOOLEAN
    /\ \E n \in 1 .. MaxSamples, p \in BulkProfiles, q \in Profiles \cup OddProfiles :
           mutations = Table(n, p, q)
    /\ pc = "import"
    /\ inf_muts = <<>> /\ drug_genes = <<>> /\ taskqueue = <<>>
    /\ wk = [w \in Workers |-> Unborn]
    /\ results = <<>> /\ raised = <<>> /\ antibiograms = <<>> /\ gWT_samples = <<>>
    \* the cache directory persists between runs
    /\ store \in {<<>>, [k \in KeySet |-> StaleEntry]}
    /\ nclears = 0 /\ busyclear = FALSE /\ stalehit = FALSE
    /\ computes = [w \in Workers |-> <<>>]
    /\ hits = [w \in Workers |-> {}]
    /\ written = {}
    /\ returned = {}
    /\ NoNonsilent /\ NoFn

InCall == \E w \in Workers : wk[w].pc = "compute"

ClearMutant ==
    /\ store' = store
    /\ nclears' = nclears + 1
    /\ busyclear' = (busyclear \/ InCall \/ returned # {})

\* memory.clear(warn=False)
Clear ==
    /\ store' = <<>>
    /\ nclears' = nclears + 1
    /\ busyclear' = (busyclear \/ InCall \/ returned # {})

\* The main process executes the module's top level (wts.py:8-11).
Import ==
    /\ pc = "import"
    /\ Clear
    /\ pc' = "identify"
    /\ UNCHANGED <<platform, cores, cat, piezo, loadable, mutations, inf_muts, drug_genes,
                   taskqueue, wk, results, antibiograms, gWT_samples>>
    /\ UNCHANGED <<raised, computes, hits, written, returned, stalehit>>
    /\ UNCHANGED <<nsVars, fnVars>>

\* erj2022_WT.identify up to its call of parallel_antibiogram (wts.py:108)
InfVars ==
    /\ pc = "identify"
    /\ inf_muts' = FilterMutations(mutations, cat)
    /\ drug_genes' = DrugGenesDict(cat, drugs)
    /\ pc' = "dispatch"
    /\ UNCHANGED <<platform, cores, cat, piezo, loadable, mutations, taskqueue, wk, results,
                   antibiograms, gWT_samples, store>>
    /\ UNCHANGED <<raised, histVars, nsVars, fnVars>>

\* parallel_antibiogram up to the pool's creation (wts.py:26-38).  Pool(0)
\* raises ValueError.
StartPool ==
    /\ pc = "dispatch"
    /\ LET tasks == Tasks(inf_muts)
           n == PoolSize(cores, tasks)
       IN IF n < 1
          THEN /\ pc' = "ValueError"
               /\ UNCHANGED <<taskqueue, wk>>
          ELSE /\ pc' = "pool"
               /\ taskqueue' = Chunks(tasks, ChunkSize)
               /\ wk' = [w \in Workers |->
                           IF w <= n
                           THEN [Unborn EXCEPT !.pc = "idle",
                                               !.imported = (platform = "fork")]
                           ELSE Unborn]
    /\ UNCHANGED <<platform, cores, cat, piezo, loadable, mutations, inf_muts, drug_genes,
                   results, antibiograms, gWT_samples, store>>
    /\ UNCHANGED <<raised, histVars, nsVars, fnVars>>

\* A spawned worker executes the module's top level anew (wts.py:8-11).
WorkerImport(w) ==
    /\ pc = "pool"
    /\ wk[w].pc = "idle" /\ ~wk[w].imported
    /\ Clear
    /\ wk' = [wk EXCEPT ![w].imported = TRUE]
    /\ UNCHANGED <<platform, cores, cat, piezo, loadable, mutations, pc, inf_muts, drug_genes,
                   taskqueue, results, antibiograms, gWT_samples>>
    /\ UNCHANGED <<raised, computes, hits, written, returned, stalehit>>
    /\ UNCHANGED <<nsVars, fnVars>>

\* Worker w has advanced to record r: it is at a call of cached_predict, or
\* its chunk is finished and the chunk's results go to the main process.
Advance(w, r) ==
    IF r.ti > Len(r.chunk)
    THEN /\ results' = results \o r.out
         /\ wk' = [wk EXCEPT ![w] = Idle(r)]
    ELSE /\ results' = results
         /\ wk' = [wk EXCEPT ![w] = r]

\* An idle worker takes the next chunk and starts on it.
TakeChunk(w) ==
    /\ pc = "pool"
    /\ wk[w].pc = "idle" /\ wk[w].imported
    /\ taskqueue # <<>>
    /\ taskqueue' = Tail(taskqueue)
    /\ Advance(w, RunLocal([wk[w] EXCEPT !.chunk = Head(taskqueue)], drug_genes))
    /\ UNCHANGED <<platform, cores, cat, piezo, loadable, mutations, pc, inf_muts, drug_genes,
                   antibiograms, gWT_samples, store>>
    /\ UNCHANGED <<raised, histVars, nsVars, fnVars>>

HitMutant(k) == FALSE

\* joblib's lookup of the call's key in the cache directory
Hit(k) == k \in DOMAIN store

StoredCallMutant(k) == "S"

\* the value joblib loads for a key it found
StoredCall(k) == store[k].call

\* cached_predict is called: joblib looks the key up (wts.py:77).
Lookup(w) ==
    /\ pc = "pool"
    /\ wk[w].pc = "lookup"
    /\ LET k == CallKey(wk[w], drug_genes)
       IN IF Hit(k)
          THEN /\ hits' = [hits EXCEPT ![w] = @ \cup {k}]
               /\ returned' = returned \cup {<<k, StoredCall(k)>>}
               /\ stalehit' = (stalehit \/ store[k].run = "previous")
               /\ Advance(w, Returned(wk[w], StoredCall(k), drug_genes))
          ELSE /\ wk' = [wk EXCEPT ![w].pc = "compute"]
               /\ UNCHANGED <<results, hits, returned, stalehit>>
    /\ UNCHANGED <<platform, cores, cat, piezo, loadable, mutations, pc, inf_muts, drug_genes,
                   taskqueue, antibiograms, gWT_samples, store>>
    /\ UNCHANGED <<raised, nclears, busyclear, computes, written>>
    /\ UNCHANGED <<nsVars, fnVars>>

\* An exception e leaves process_antibiogram in worker w (record r): the
\* chunk in hand is abandoned, its finished tasks with it, and the exception
\* is sent to the main process in place of the chunk's results.
Raise(w, r, e) ==
    /\ raised' = Append(raised, e)
    /\ wk' = [wk EXCEPT ![w] = Idle(r)]
    /\ UNCHANGED <<results, store, computes, written, returned>>

\* The body of cached_predict runs (wts.py:78-81): get_catalogue, whose load
\* may raise, then catalogue.predict, which raises for a notation it does not
\* accept, then joblib stores the value.
Compute(w) ==
    /\ pc = "pool"
    /\ wk[w].pc = "compute"
    /\ LET k == CallKey(wk[w], drug_genes)
       IN IF MustLoad(wk[w], k[3]) /\ ~loadable
          THEN Raise(w, wk[w], "CatalogueLoadError")
          ELSE LET r == GetCatalogue(wk[w], k[3])
               IN IF k[1] \notin DOMAIN piezo
                  THEN Raise(w, r, "PredictError")
                  ELSE LET c == Resolve(piezo[k[1]], k[2])
                       IN /\ store' = (k :> [call |-> c, run |-> "current"]) @@ store
                          /\ computes' = [computes EXCEPT ![w] = (k :> Count(@, k) + 1) @@ @]
                          /\ written' = written \cup {<<k, c>>}
                          /\ returned' = returned \cup {<<k, c>>}
                          /\ Advance(w, Returned(r, c, drug_genes))
                          /\ raised' = raised
    /\ UNCHANGED <<platform, cores, cat, piezo, loadable, mutations, pc, inf_muts, drug_genes,
                   taskqueue, antibiograms, gWT_samples>>
    /\ UNCHANGED <<nclears, busyclear, hits, stalehit>>
    /\ UNCHANGED <<nsVars, fnVars>>

FailedMutant == FALSE

\* the result iterator of the main process has an exception to re-raise
Failed == raised # <<>>

\* list(pool.imap_unordered(...)) re-raises the first exception that arrived;
\* leaving the with block terminates the pool (wts.py:38-41).
Reraise ==
    /\ pc = "pool"
    /\ Failed
    /\ pc' = Head(raised)
    /\ taskqueue' = <<>>
    /\ wk' = [w \in Workers |->
                IF wk[w].pc = "unborn" THEN wk[w] ELSE [wk[w] EXCEPT !.pc = "terminated"]]
    /\ UNCHANGED <<platform, cores, cat, piezo, loadable, mutations, inf_muts, drug_genes,
                   results, raised, antibiograms, gWT_samples, store>>
    /\ UNCHANGED <<histVars, nsVars, fnVars>>

DrainedMutant == taskqueue = <<>>

\* every chunk has been taken and every worker has sent what it took
Drained ==
    /\ taskqueue = <<>>
    /\ \A w \in Workers : wk[w].pc \in {"idle", "unborn"}

\* Every task's result has arrived: parallel_antibiogram returns its dict and
\* identify derives the verdicts (wts.py:39-45, 117-128).
Return ==
    /\ pc = "pool"
    /\ Drained
    /\ ~Failed
    /\ antibiograms' = DictOf(results)
    /\ gWT_samples' = VerdictsOf(DictOf(results))
    /\ pc' = "done"
    /\ UNCHANGED <<platform, cores, cat, piezo, loadable, mutations, inf_muts, drug_genes,
                   taskqueue, wk, results, store>>
    /\ UNCHANGED <<raised, histVars, nsVars, fnVars>>

Next ==
    \/ Import
    \/ InfVars
    \/ StartPool
    \/ \E w \in Workers : WorkerImport(w)
    \/ \E w \in Workers : TakeChunk(w)
    \/ \E w \in Workers : Lookup(w)
    \/ \E w \in Workers : Compute(w)
    \/ Reraise
    \/ Return

Spec == Init /\ [][Next]_vars

(***************************************************************************)
(* Properties of the inferred-antibiogram run (specification Spec).        *)
(***************************************************************************)
InputUids == {mutations[i].UNIQUEID : i \in DOMAIN mutations}
CallsOf(pairs, k) == {p[2] : p \in {q \in pairs : q[1] = k}}

RECURSIVE SumComputes(_, _)
SumComputes(ws, k) ==
    IF ws = {} THEN 0
    ELSE LET w == CHOOSE x \in ws : TRUE
         IN Count(computes[w], k) + SumComputes(ws \ {w}, k)

\* C3 as claimed, taken where the cache is cleared once (forked workers): over
\* the whole pool the body of cached_predict runs at most once for each key.
C3_AtMostOncePerKey ==
    platform = "fork" => \A k \in KeySet : SumComputes(Workers, k) <= 1

\* C3, amended: each worker runs the body of cached_predict for a key at most
\* once per clearing of the cache (once, with forked workers), and a lookup is
\* answered from the store only for a key stored during the run; workers that
\* miss the same key before any of them has stored it each compute it.
C3_OncePerWorkerPerClear ==
    /\ \A w \in Workers, k \in KeySet : Count(computes[w], k) <= nclears
    /\ platform = "fork" => \A w \in Workers, k \in KeySet : Count(computes[w], k) <= 1
    /\ \A w \in Workers : \A k \in hits[w] : CallsOf(written, k) # {}

\* two forked workers have each computed a key, and one of them has since
\* been answered from the store for it
C3_Witness ==
    /\ platform = "fork"
    /\ \E k \in KeySet, w \in Workers :
          /\ SumComputes(Workers, k) = 2
          /\ Count(computes[w], k) = 1
          /\ k \in hits[w]

\* C4: for each key, all the calls cached_predict returned in the run and all
\* the calls stored for it in the run are one and the same call.
C4_StableValue ==
    \A k \in KeySet : Cardinality(CallsOf(written, k) \cup CallsOf(returned, k)) <= 1

\* a key was computed and written by two workers and later answered from the
\* store, and the run has finished
C4_Witness ==
    /\ pc = "done"
    /\ \E k \in KeySet :
          /\ SumComputes(Workers, k) >= 2
          /\ \E w \in Workers : k \in hits[w]

\* C5 as claimed: a finished run returns a boolean verdict for every sample
\* identifier of the input mutation table.
C5_VerdictForEveryInputSample ==
    pc = "done" =>
        /\ DOMAIN gWT_samples = InputUids
        /\ \A u \in DOMAIN gWT_samples : gWT_samples[u] \in BOOLEAN

NoResistanceGene(u) ==
    \A i \in DOMAIN mutations :
        mutations[i].UNIQUEID = u => mutations[i].GENE \notin Range(R_genes(cat))

\* C6 as claimed: a sample with no mutation in a resistance-associated gene
\* gets an antibiogram of one S per panel drug.
C6_AllSusceptibleAntibiogram ==
    pc = "done" =>
        \A u \in InputUids :
            NoResistanceGene(u) =>
                /\ u \in DOMAIN antibiograms
                /\ antibiograms[u] = [i \in DOMAIN drugs |-> "S"]

\* The call the spec gives sample u for a drug: R if any of its mutations in
\* the drug's genes is predicted R, else U if any is predicted U, else S.
SampleCalls(u, drug) ==
    {IF mutations[i].MUTATION = NaN THEN "S"
     ELSE Resolve(piezo[mutations[i].MUTATION], drug) :
        i \in {j \in DOMAIN mutations :
                  /\ mutations[j].UNIQUEID = u
                  /\ \E r \in Range(cat), q \in Range(cat) :
                        /\ r.DRUG = drug /\ q.PREDICTION = "R"
                        /\ CatGene(r) = mutations[j].GENE
                        /\ CatGene(q) = mutations[j].GENE}}

ExpectedCall(u, drug) ==
    IF "R" \in SampleCalls(u, drug) THEN "R"
    ELSE IF "U" \in SampleCalls(u, drug) THEN "U" ELSE "S"

PanelOrdered(u, res) ==
    /\ Len(res) = 9
    /\ Len(res) = Len(drugs)
    /\ \A i \in DOMAIN res : res[i] = ExpectedCall(u, drugs[i])

\* C9: every antibiogram the tasks of a run returned, and every value of the
\* returned dict, holds one call per panel drug, the call at position i being that of the
\* i-th drug of RIF, INH, EMB, PZA, AMI, KAN, LEV, MXF, ETH.
C9_OneCallPerPanelDrug ==
    /\ drugs = <<"RIF", "INH", "EMB", "PZA", "AMI", "KAN", "LEV", "MXF", "ETH">>
    /\ pc = "done" =>
          /\ \A i \in DOMAIN results : PanelOrdered(results[i][1], results[i][2])
          /\ \A u \in DOMAIN antibiograms : PanelOrdered(u, antibiograms[u])

\* a finished run whose dict holds an antibiogram with U at AMI's position and
\* S everywhere else
C9_Witness ==
    /\ pc = "done"
    /\ \E u \in DOMAIN antibiograms :
           antibiograms[u] = [i \in DOMAIN drugs |-> IF drugs[i] = "AMI" THEN "U" ELSE "S"]

\* C10 as claimed: the cache is cleared exactly once per run, before any
\* lookup, never while a worker is in a lookup, and no entry of an earlier run
\* is ever returned.
C10_ClearedOncePerRun ==
    /\ pc # "import" => nclears = 1
    /\ ~busyclear
    /\ ~stalehit

CatalogueDrugs == {cat[i].DRUG : i \in DOMAIN cat}

\* C12 as claimed: a run never completes when a drug of the panel does not
\* occur among the catalogue's drugs, and it yields no verdicts.
C12_UnsupportedDrugFails ==
    (\E i \in DOMAIN drugs : drugs[i] \notin CatalogueDrugs) =>
        pc # "done" /\ gWT_samples = <<>>

\* C20 as claimed: when zero tasks are dispatched the pool is still created
\* with at least one worker and parallel_antibiogram goes on to return a
\* mapping instead of raising.
C20_ZeroTasksStillReturn ==
    (pc \notin {"import", "identify", "dispatch"} /\ Tasks(inf_muts) = <<>>) =>
        /\ pc \in {"pool", "done"}
        /\ \E w \in Workers : wk[w].pc # "unborn"

\* The samples dispatched as tasks, and those whose rows bring process_antibiogram
\* to a call of cached_predict that raises.
DispatchedUids == {inf_muts[i].UNIQUEID : i \in DOMAIN inf_muts}

Looked(row) ==
    /\ row.MUTATION # NaN
    /\ \E i \in DOMAIN drug_genes : row.GENE \in Range(drug_genes[i][2])

\* C11: once the load of the catalogue has failed in a worker the run never
\* completes: no mapping and no verdict is ever produced, the only exit of the
\* main process is the exception, and with it the pool is terminated, the
\* chunks not yet taken are dropped and the results received are discarded.
C11_LoadFailureAborts ==
    InSeq("CatalogueLoadError", raised) =>
        /\ pc \in {"pool", "CatalogueLoadError"}
        /\ pc = "pool" => ENABLED Reraise /\ ~ENABLED Return
        /\ antibiograms = <<>> /\ gWT_samples = <<>>
        /\ pc # "pool" =>
              /\ pc = Head(raised)
              /\ taskqueue = <<>>
              /\ \A w \in Workers : wk[w].pc \in {"unborn", "terminated"}

\* the load failed for the task of the second chunk after the whole first
\* chunk had succeeded: its ten results were received and then discarded
C11_Witness ==
    /\ pc = "CatalogueLoadError"
    /\ Len(results) = ChunkSize
    /\ antibiograms = <<>> /\ gWT_samples = <<>>

\* C14 as claimed: when predicting one mutation of a sample raises, the run
\* still ends with a mapping that holds the antibiogram of every other
\* dispatched sample.
C14_PredictErrorIsolated ==
    (InSeq("PredictError", raised) /\ pc # "pool") =>
        \A u \in DispatchedUids :
            (\A i \in DOMAIN inf_muts :
                 (inf_muts[i].UNIQUEID = u /\ Looked(inf_muts[i]))
                     => inf_muts[i].MUTATION \in DOMAIN piezo)
                => u \in DOMAIN antibiograms

\* C18 as claimed: no call of cached_predict is ever made for a missing or an
\* empty variant notation.
C18_NoCallForMissingOrEmpty ==
    \A w \in Workers :
        wk[w].pc \in {"lookup", "compute"} =>
            CallKey(wk[w], drug_genes)[1] \notin {NaN, empty}

TaskUids == {Tasks(inf_muts)[j].uid : j \in DOMAIN Tasks(inf_muts)}
TasksOf(u) == {j \in DOMAIN Tasks(inf_muts) : Tasks(inf_muts)[j].uid = u}
ResultsOf(u) == {i \in DOMAIN results : results[i][1] = u}

\* C15: the mapping exists only once the run is done, and then every chunk
\* has been taken, no worker holds a task, each sample identifier of the
\* dispatched table was one task and has sent one result, and the mapping has
\* for exactly these identifiers the calls their own task sent.
C15_FullBarrier ==
    /\ pc # "done" => antibiograms = <<>>
    /\ pc = "done" =>
          /\ taskqueue = <<>>
          /\ \A w \in Workers : wk[w].pc \in {"idle", "unborn"}
          /\ TaskUids = DispatchedUids
          /\ Len(results) = Len(Tasks(inf_muts))
          /\ \A u \in DispatchedUids :
                /\ Cardinality(TasksOf(u)) = 1
                /\ Cardinality(ResultsOf(u)) = 1
          /\ DOMAIN antibiograms = DispatchedUids
          /\ \A u \in DOMAIN antibiograms :
                \A i \in ResultsOf(u) : antibiograms[u] = results[i][2]

\* a finished two-chunk run with forked workers in which the result of the
\* second chunk arrived first
C15_Witness ==
    /\ pc = "done"
    /\ platform = "fork"
    /\ Len(results) > ChunkSize
    /\ results[1][1] > ChunkSize
    /\ DOMAIN antibiograms = 1 .. Len(results)

\* What the inputs alone say of a run: the samples with a row in a gene that
\* has an R row, and whether a row of theirs reaches a call that raises.
HasRRow(gene) == \E i \in DOMAIN cat : cat[i].PREDICTION = "R" /\ CatGene(cat[i]) = gene

HasPanelRow(gene) ==
    \E i \in DOMAIN cat, d \in DOMAIN drugs : cat[i].DRUG = drugs[d] /\ CatGene(cat[i]) = gene

InputDispatched ==
    {mutations[j].UNIQUEID : j \in {i \in DOMAIN mutations : HasRRow(mutations[i].GENE)}}

WillRaise ==
    \E j \in DOMAIN mutations :
        /\ HasRRow(mutations[j].GENE) /\ HasPanelRow(mutations[j].GENE)
        /\ mutations[j].MUTATION # NaN
        /\ ~loadable \/ mutations[j].MUTATION \notin DOMAIN piezo

ExpectedAntibiogram(u) == [i \in DOMAIN drugs |-> ExpectedCall(u, drugs[i])]

RowsOf(u) ==
    LET rows == SelectSeq(mutations, LAMBDA r : r.UNIQUEID = u)
    IN [i \in DOMAIN rows |-> <<rows[i].GENE, rows[i].MUTATION>>]

\* C16: how a run ends is fixed by its inputs, whatever the interleaving of
\* the workers, the order of arrival of the results, the size of the pool, the
\* start method and the entries the cache held before the run; a mapping that
\* is returned gives each dispatched sample the calls that its own rows, the
\* catalogue and the panel determine, so that samples with the same rows have
\* the same antibiogram.
C16_Deterministic ==
    /\ pc = "done" =>
          /\ InputDispatched # {} /\ ~WillRaise
          /\ antibiograms = [u \in InputDispatched |-> ExpectedAntibiogram(u)]
          /\ \A u, v \in DOMAIN antibiograms :
                RowsOf(u) = RowsOf(v) => antibiograms[u] = antibiograms[v]
    /\ pc = "ValueError" => InputDispatched = {}
    /\ pc = "CatalogueLoadError" => WillRaise /\ ~loadable
    /\ pc = "PredictError" => WillRaise /\ loadable

\* a finished two-chunk run with spawned workers: the cache was cleared by
\* the main process and by two workers, a key was computed twice and the
\* result of the second chunk arrived first
C16_Witness ==
    /\ pc = "done"
    /\ platform = "spawn"
    /\ nclears >= 3
    /\ \E k \in KeySet : SumComputes(Workers, k) >= 2
    /\ Len(results) > ChunkSize
    /\ results[1][1] > ChunkSize

\* C17: in every worker process the catalogue has been loaded at most once,
\* _catalogue_cache holds at most the one path, and all calls of get_catalogue
\* have returned one and the same handle.
C17_LoadedOncePerProcess ==
    \A w \in Workers :
        /\ wk[w].loads <= 1
        /\ Cardinality(wk[w].handles) <= 1
        /\ DOMAIN wk[w].cache \subseteq {CatPath}
        /\ \A path \in DOMAIN wk[w].cache : wk[w].handles = {wk[w].cache[path]}

\* one worker has handled both chunks and has called get_catalogue in each of
\* them, for two different keys
C17_Witness ==
    /\ pc = "done"
    /\ cores = 1
    /\ Len(results) > ChunkSize
    /\ Cardinality(DOMAIN computes[1]) >= 2
    /\ wk[1].loads = 1

(***************************************************************************)
(* The verdict rule of erj2022_WT.identify, applied to every antibiogram   *)
(* of the panel's length (specification SpecVerdict).                      *)
(***************************************************************************)
Calls == {"S", "R", "U"}

InitVerdict ==
    /\ \E a \in [DOMAIN drugs -> Calls] : fn_in = ("s1" :> a)
    /\ fn_out = <<>>
    /\ NoRun /\ NoNonsilent

\* wts.py:117-128
Verdict ==
    /\ fn_out = <<>>
    /\ fn_out' = <<VerdictsOf(fn_in)>>
    /\ UNCHANGED <<fn_in, poolVars, histVars, nsVars>>

NextVerdict == Verdict

SpecVerdict == InitVerdict /\ [][NextVerdict]_vars

\* C1: the verdict is true iff the calls at positions 0..3 are all S and the
\* calls at positions 4..8 are all S or U (positions counted from 0).
C1_VerdictRule ==
    fn_out # <<>> =>
        \A u \in DOMAIN fn_in :
            fn_out[1][u] = ( /\ \A i \in 1 .. 4 : fn_in[u][i] = "S"
                             /\ \A i \in 5 .. 9 : fn_in[u][i] \in {"S", "U"} )

\* a verdict of true for an antibiogram with a U among the second-line calls
C1_Witness ==
    /\ fn_out # <<>>
    /\ \E u \in DOMAIN fn_in : fn_out[1][u] /\ \E i \in 5 .. 9 : fn_in[u][i] = "U"

(***************************************************************************)
(* The aggregation of per-mutation calls (specification SpecAggregate).    *)
(***************************************************************************)
InitAggregate ==
    /\ \E n \in 0 .. MaxPreds : fn_in \in [1 .. n -> Calls]
    /\ fn_out = <<>>
    /\ NoRun /\ NoNonsilent

\* wts.py:56-70, preds being the calls mapped from muts
AggregateCalls ==
    /\ fn_out = <<>>
    /\ fn_out' = <<IF fn_in = <<>> THEN "S" ELSE Aggregate(fn_in)>>
    /\ UNCHANGED <<fn_in, poolVars, histVars, nsVars>>

NextAggregate == AggregateCalls

SpecAggregate == InitAggregate /\ [][NextAggregate]_vars

\* C8: the aggregated call is R if any call is R, else U if any call is U,
\* else S: a function of the set of calls that occur.
C8_AggregateBySet ==
    fn_out # <<>> =>
        fn_out[1] = (IF "R" \in Range(fn_in) THEN "R"
                     ELSE IF "U" \in Range(fn_in) THEN "U" ELSE "S")

\* R is the result although a U comes first and occurs twice
C8_Witness ==
    /\ fn_out = <<"R">>
    /\ Len(fn_in) >= 3 /\ fn_in[1] = "U" /\ fn_in[2] = "U" /\ fn_in[Len(fn_in)] = "R"

(***************************************************************************)
(* The body of cached_predict, applied to every kind of value the          *)
(* catalogue's predict returns (specification SpecPredict).                *)
(***************************************************************************)
PredictDrugs == {"RIF", "INH"}

\* what catalogue.predict may return: a dict from some drugs to calls, or one call
PredictResults ==
    {Dict(f) : f \in UNION {[D -> Calls] : D \in SUBSET PredictDrugs}}
        \cup {Scalar(c) : c \in Calls}

InitPredict ==
    /\ \E r \in PredictResults, i \in DOMAIN drugs :
           fn_in = [mutation |-> ax, drug |-> drugs[i], result |-> r]
    /\ fn_out = <<>>
    /\ NoRun /\ NoNonsilent

\* wts.py:78-81, catalogue.predict(mutation) having returned fn_in.result
PredictCall ==
    /\ fn_out = <<>>
    /\ fn_out' = <<Resolve(fn_in.result, fn_in.drug)>>
    /\ UNCHANGED <<fn_in, poolVars, histVars, nsVars>>

NextPredict == PredictCall

SpecPredict == InitPredict /\ [][NextPredict]_vars

\* C19: cached_predict returns the dict's entry for the drug when the result
\* is a dict that has the drug, S when it is a dict without the drug, and the
\* result itself when it is a single call.
C19_DictEntryOrScalar ==
    fn_out # <<>> =>
        /\ (fn_in.result.isdict /\ fn_in.drug \in DOMAIN fn_in.result.items)
               => fn_out[1] = fn_in.result.items[fn_in.drug]
        /\ (fn_in.result.isdict /\ fn_in.drug \notin DOMAIN fn_in.result.items)
               => fn_out[1] = "S"
        /\ ~fn_in.result.isdict => fn_out[1] = fn_in.result.value

\* S is returned for a drug the dict lacks although every entry it has is R
C19_Witness ==
    /\ fn_out # <<>>
    /\ fn_in.result.isdict
    /\ DOMAIN fn_in.result.items # {}
    /\ \A d \in DOMAIN fn_in.result.items : fn_in.result.items[d] = "R"
    /\ fn_in.drug \notin DOMAIN fn_in.result.items
    /\ fn_out[1] = "S"

(***************************************************************************)
(* inf_vars' drug -> genes dict (specification SpecInfVars).               *)
(***************************************************************************)
CatRows ==
    {CatRow(m, d, p) : m \in {ax, by, gene_a}, d \in {"RIF", "INH", "XYZ"}, p \in {"R", "S"}}

InitInfVars ==
    /\ \E n \in 0 .. MaxCatRows : fn_in \in [1 .. n -> CatRows]
    /\ fn_out = <<>>
    /\ NoRun /\ NoNonsilent

\* wts.py:132-142
InfVarsDict ==
    /\ fn_out = <<>>
    /\ fn_out' = <<DrugGenesDict(fn_in, drugs)>>
    /\ UNCHANGED <<fn_in, poolVars, histVars, nsVars>>

NextInfVars == InfVarsDict

SpecInfVars == InitInfVars /\ [][NextInfVars]_vars

\* g is the text of m before its first separator (all of m without one)
IsGeneOf(g, m) ==
    /\ Sep \notin Range(g)
    /\ \/ m = g
       \/ /\ Len(m) > Len(g)
          /\ m[Len(g) + 1] = Sep
          /\ \A i \in DOMAIN g : m[i] = g[i]

Prefixes(m) == {SubSeq(m, 1, n) : n \in 0 .. Len(m)}

\* the genes with a row predicting R (for any drug) and a row for the drug
ClaimedGenes(c, drug) ==
    LET withR == {g \in UNION {Prefixes(c[i].MUTATION) : i \in DOMAIN c} :
                     \E i \in DOMAIN c : IsGeneOf(g, c[i].MUTATION) /\ c[i].PREDICTION = "R"}
    IN {g \in withR : \E i \in DOMAIN c : IsGeneOf(g, c[i].MUTATION) /\ c[i].DRUG = drug}

\* the exchanges of two rows of an n-row table; every reordering is a chain of
\* them, and every table of each length is drawn, so a result that no
\* exchange changes is the same for every order of the rows
RowOrders(n) ==
    {[k \in 1 .. n |-> IF k = i THEN j ELSE IF k = j THEN i ELSE k] : i, j \in 1 .. n}

GeneSets(dict) == [i \in DOMAIN dict |-> <<dict[i][1], Range(dict[i][2])>>]

\* C7: inf_vars maps each panel drug to exactly the genes that have a row
\* predicting R and a row for that drug, whatever the order of the rows.
C7_DrugGenes ==
    fn_out # <<>> =>
        /\ DOMAIN fn_out[1] = DOMAIN drugs
        /\ \A i \in DOMAIN drugs :
              /\ fn_out[1][i][1] = drugs[i]
              /\ Range(fn_out[1][i][2]) = ClaimedGenes(fn_in, drugs[i])
        /\ \A f \in RowOrders(Len(fn_in)) :
              GeneSets(DrugGenesDict([i \in DOMAIN fn_in |-> fn_in[f[i]]], drugs))
                  = GeneSets(fn_out[1])

\* gene a has an R row for a drug outside RIF and a non-R row for RIF, gene b
\* has rows but none predicting R: RIF maps to gene a alone
C7_Witness ==
    /\ fn_out # <<>>
    /\ Range(fn_out[1][1][2]) = {gene_a}
    /\ \E i \in DOMAIN fn_in : fn_in[i] = CatRow(by, "RIF", "S")
    /\ \A i \in DOMAIN fn_in : fn_in[i].DRUG = "RIF" => fn_in[i].PREDICTION = "S"

(***************************************************************************)
(* nonsilent_WT.identify (specification SpecNonsilent).                    *)
(***************************************************************************)
GeneParts == {<<>>, <<"a">>, <<"b">>}
SepParts == {<<>>, <<Sep>>}
ChangeParts == {<<>>, <<"a">>, <<"a", "b">>, <<"a", "x", "a">>, <<"b", Sep, "a">>}

\* the values of a MUTATION cell
Notations == {g \o p \o c : g \in GeneParts, p \in SepParts, c \in ChangeParts}
Uids == {1, 2}
NsRows == {[UNIQUEID |-> u, MUTATION |-> m] : u \in Uids, m \in Notations \cup {NaN}}

\* group.MUTATION.dropna() for the group of unique_id
GroupMutations(d, unique_id) ==
    LET rows == SelectSeq(d, LAMBDA r : r.UNIQUEID = unique_id /\ r.MUTATION # NaN)
    IN [i \in DOMAIN rows |-> rows[i].MUTATION]

SynonymousMutant(m) == m[1] = m[Len(m)]

\* m.split("@")[-1][0] == m.split("@")[-1][-1], where the indexed text is not empty
Synonymous(m) == SplitLast(m)[1] = SplitLast(m)[Len(SplitLast(m))]

\* all(... for m in mutations) from the i-th mutation on: indexing the empty
\* text raises IndexError, the first unequal pair ends the scan
RECURSIVE AllSynonymous(_, _)
AllSynonymous(ms, i) ==
    IF i > Len(ms) THEN "True"
    ELSE IF SplitLast(ms[i]) = <<>> THEN "IndexError"
    ELSE IF ~Synonymous(ms[i]) THEN "False"
    ELSE AllSynonymous(ms, i + 1)

\* the body of the loop at wts.py:91-96 for one group
GroupOutcome(ms) ==
    IF ms = <<>> THEN "wt" ELSE
    LET a == AllSynonymous(ms, 1)
    IN IF a = "True" THEN "synonymous" ELSE IF a = "False" THEN "mutant" ELSE a

UidsOf(d) == {d[i].UNIQUEID : i \in DOMAIN d}

InitNonsilent ==
    /\ \E n \in 0 .. MaxRows : df \in [1 .. n -> NsRows]
    /\ ns_out = [state |-> "called", mask |-> <<>>]
    /\ NoRun /\ NoFn

\* nonsilent_WT.identify(df): the boolean column it returns, or the IndexError
\* a group raises
Identify ==
    /\ ns_out.state = "called"
    /\ IF \E u \in UidsOf(df) : GroupOutcome(GroupMutations(df, u)) = "IndexError"
       THEN ns_out' = [state |-> "IndexError", mask |-> <<>>]
       ELSE ns_out' =
              [state |-> "returned",
               mask |-> [i \in DOMAIN df |->
                           GroupOutcome(GroupMutations(df, df[i].UNIQUEID))
                               \in {"synonymous", "wt"}]]
    /\ UNCHANGED <<df, poolVars, histVars, fnVars>>

NextNonsilent == Identify

SpecNonsilent == InitNonsilent /\ [][NextNonsilent]_vars

\* the variant notations of the rows of sample u
NotationsOf(u) ==
    {df[i].MUTATION : i \in {j \in DOMAIN df : df[j].UNIQUEID = u /\ df[j].MUTATION # NaN}}

LastSep(m) == IF SepAt(m) = {} THEN 0 ELSE Max(SepAt(m))

\* m has the form GENE@CHANGE: one separator, with text on both sides
GeneAtChange(m) == Cardinality(SepAt(m)) = 1 /\ 1 \notin SepAt(m) /\ Len(m) \notin SepAt(m)

Malformed(m) == SepAt(m) = {} \/ SplitLast(m) = <<>>

\* C13 as claimed: identify never raises, and a sample with a variant notation
\* that lacks the separator or has nothing after it is classified mutant.
C13_MalformedIsMutant ==
    /\ ns_out.state # "IndexError"
    /\ ns_out.state = "returned" =>
          \A i \in DOMAIN df :
              (\E m \in NotationsOf(df[i].UNIQUEID) : Malformed(m)) => ~ns_out.mask[i]

=============================================================================
